---- MODULE Spec2Model ----
(***************************************************************************)
(* The transcription workflow of TranscriberUI (React component): its      *)
(* state hooks and refs, one action per event handler, and one action per  *)
(* completion of an awaited call (microphone acquisition, recorder stop    *)
(* event, transcribe, translate, save, the save-success timer).            *)
(*                                                                         *)
(* A handler's synchronous part is one atomic step (React re-renders       *)
(* before the next event), each continuation after an await is one step.   *)
(* A handler is offered only while the element that carries it is          *)
(* rendered and not disabled.                                              *)
(***************************************************************************)
EXTENDS Integers, Sequences, FiniteSets, Bags

\* ---- bounds of the model --------------------------------------------------
MaxRec == 1        \* microphone acquisitions started in one behaviour
MaxCalls == 2      \* transcribe (and, separately, translate) calls in flight
MaxUrls == 2       \* unrevoked object URLs are counted up to this number
MaxCaptures == 2   \* startRecording calls per behaviour of CaptureSpec

\* ---- values ---------------------------------------------------------------
\* enum TranscriptionStatus
IDLE == "IDLE"
RECORDING == "RECORDING"
RECORDED == "RECORDED"
TRANSCRIBING == "TRANSCRIBING"
TRANSLATING == "TRANSLATING"
COMPLETED == "COMPLETED"
ERROR == "ERROR"
TranscriptionStatus ==
  {IDLE, RECORDING, RECORDED, TRANSCRIBING, TRANSLATING, COMPLETED, ERROR}

\* null of a string-valued state (error), of an object-valued state (result,
\* pendingBlob), and of a handle (stream, mediaRecorderRef.current)
NoError == "null"
Null == [null |-> TRUE]
NoHandle == 0
\* an optional field that is absent (translatedText?: string)
Undefined == "undefined"

\* The files the user can pick: a MIME type is its part before the slash and
\* its part after it.
Files ==
  { [src |-> "file", name |-> "a.wav", major |-> "audio", sub |-> "wav", parts |-> <<>>],
    [src |-> "file", name |-> "n.txt", major |-> "text", sub |-> "plain", parts |-> <<>>] }

\* e.target.files?.[0] when no file was chosen
NoFile == [none |-> TRUE]

\* file.type.startsWith('audio/')
IsAudioType(file) == file.major = "audio"

\* new Blob(audioChunksRef.current, { type: 'audio/webm' })
RecordedBlob(chunks) ==
  [src |-> "rec", name |-> "", major |-> "audio", sub |-> "webm", parts |-> chunks]

\* What the provider answers with (response.text); "" is empty content.
EngineTexts == {"selam", ""}
TranslationTexts == {"Hello", ""}
\* What the user can type into a textarea.
TypedTexts == {"edited", ""}
\* new Date() at the time a result is built
Times == {1}

\* JavaScript truthiness of a string-or-absent value: `x || y`, `x ? a : b`
Truthy(s) == s # "" /\ s # Undefined /\ s # NoError

\* the messages the handlers put in `error`
MicMessage == "Microphone access denied or not available."
FileMessage == "Please select a valid audio file."
TranscribeEngineMessage ==
  "Failed to transcribe audio. Please check your connection or API key."
TranscribeDefaultMessage == "An error occurred during transcription."
TranslateEngineMessage == "Failed to translate text."
SaveUnauthMessage ==
  "Failed to save to Supabase: User must be logged in to save data."
SaveStoreMessage == "Failed to save to Supabase: store error"

\* the provider's text returned as it is
TranscribeReturn_Raw(responseText) == responseText

\* response.text || "No transcription available."
TranscribeReturn(responseText) ==
  IF Truthy(responseText) THEN responseText ELSE "No transcription available."

\* response.text || "Translation failed."
TranslateReturn(responseText) ==
  IF Truthy(responseText) THEN responseText ELSE "Translation failed."

\* ---- state ----------------------------------------------------------------
VARIABLES
  status,            \* useState: TranscriptionStatus
  result,            \* useState: TranscriptionResult | null
  error,             \* useState: string | null
  stream,            \* useState: MediaStream | null (a stream id)
  pendingBlob,       \* useState: Blob | null
  isSaving,          \* useState: boolean
  saveSuccess,       \* useState: boolean
  mediaRecorderRef,  \* useRef: the recorder last created (a recorder id)
  audioChunksRef,    \* useRef: the chunks pushed by ondataavailable
  micPending,        \* startRecording calls awaiting getUserMedia
  recorder,          \* per stream/recorder pair created so far, the recorder's
                     \* state: "recording" | "stopping" (stop task queued) | "inactive"
  liveTracks,        \* ids of acquired streams whose tracks are not stopped
  transcribing,      \* bag of handleTranscribeNow calls awaiting blobToBase64 or
                     \* the engine: [blob, stale]
  translating,       \* bag of handleTranslateNow calls awaiting the engine: [stale]
  saves,             \* handleSaveToCloud calls awaiting the store
  awaitingFresh,     \* a reset happened and no transcribe invoked after it has succeeded
  objectUrls,        \* URL.createObjectURL results not yet revoked (counted up to MaxUrls)
  exported,          \* what the last click of a download anchor handed out
  session,           \* App useState: whether a session exists (TranscriberUI is
                     \* mounted with one, AuthUI without)
  isLogin,           \* AuthUI useState: sign-in mode (else sign-up)
  email,             \* AuthUI useState
  password,          \* AuthUI useState (the number of characters typed)
  loading,           \* AuthUI useState: boolean
  authError,         \* AuthUI useState `error`: string | null
  authMessage,       \* AuthUI useState `message`: string | null
  authCalls          \* bag of handleSubmit calls awaiting signIn/signUp: [login]

vars ==
  <<status, result, error, stream, pendingBlob, isSaving, saveSuccess,
    mediaRecorderRef, audioChunksRef, micPending, recorder, liveTracks,
    transcribing, translating, saves, awaitingFresh, objectUrls, exported,
    session, isLogin, email, password, loading, authError, authMessage, authCalls>>

\* the state of AuthUI and the session of App
authVars ==
  <<session, isLogin, email, password, loading, authError, authMessage, authCalls>>
\* the state of TranscriberUI
transcriberVars ==
  <<status, result, error, stream, pendingBlob, isSaving, saveSuccess,
    mediaRecorderRef, audioChunksRef, micPending, recorder, liveTracks,
    transcribing, translating, saves, awaitingFresh, objectUrls, exported>>

captureVars ==
  <<stream, mediaRecorderRef, audioChunksRef, micPending, recorder, liveTracks>>
saveVars == <<isSaving, saveSuccess, saves>>

\* the id the next stream/recorder pair gets
nextId == Len(recorder) + 1

\* every call in flight at the time of a reset was dispatched before it
MarkStale(calls) ==
  LET marked == {[c EXCEPT !.stale = TRUE] : c \in BagToSet(calls)}
  IN  [c \in marked |->
         CopiesIn(c, calls) + CopiesIn([c EXCEPT !.stale = FALSE], calls)]

One(call) == SetToBag({call})

Init ==
  /\ status = IDLE
  /\ result = Null
  /\ error = NoError
  /\ stream = NoHandle
  /\ pendingBlob = Null
  /\ isSaving = FALSE
  /\ saveSuccess = FALSE
  /\ mediaRecorderRef = NoHandle
  /\ audioChunksRef = <<>>
  /\ micPending = 0
  /\ recorder = <<>>
  /\ liveTracks = {}
  /\ transcribing = EmptyBag
  /\ translating = EmptyBag
  /\ saves = 0
  /\ awaitingFresh = FALSE
  /\ objectUrls = 0
  /\ exported = Null
  /\ session = TRUE
  /\ isLogin = TRUE
  /\ email = ""
  /\ password = 0
  /\ loading = FALSE
  /\ authError = NoError
  /\ authMessage = NoError
  /\ authCalls = EmptyBag

\* ---- what is rendered: the guards of the user's actions ---------------------
\* {status === IDLE && (<> Record Now, Upload File </>)}
RecordShown == status = IDLE
UploadShown == status = IDLE
\* {status === RECORDING && <button onClick={stopRecording}>}
StopShown == status = RECORDING
\* {status === RECORDED && <button onClick={handleTranscribeNow}>}
TranscribeShown == status = RECORDED
\* {(status !== IDLE) && <button onClick={reset}>Clear All</button>}
ClearAllShown == status # IDLE
\* {result && (...)}: the result panel with its textareas and buttons
ResultShown == result # Null
\* the translation textarea rendered with every result
TranslationShown_Always == ResultShown

\* {result.translatedText ? <textarea .../> : <button onClick={handleTranslateNow}
\*   disabled={status === TRANSLATING}>}
TranslationShown == ResultShown /\ Truthy(result.translatedText)
TranslateEnabled ==
  ResultShown /\ ~Truthy(result.translatedText) /\ status # TRANSLATING
\* the Save button with `isSaving` left out of its disabled condition
SaveEnabled_IgnoresFlag == ResultShown /\ status # TRANSLATING

\* <button onClick={handleSaveToCloud} disabled={isSaving || status === TRANSLATING}>
SaveEnabled == ResultShown /\ ~isSaving /\ status # TRANSLATING

\* {status === RECORDING ? <Visualizer/> : (pendingBlob || result?.audioBlob) ?
\*   <audio src={URL.createObjectURL(pendingBlob || result?.audioBlob!)}/> : ...}
PreviewShown == status # RECORDING /\ (pendingBlob # Null \/ result # Null)
PreviewAudio == IF pendingBlob # Null THEN pendingBlob ELSE result.audioBlob

\* the state hooks: a change of any of them makes React render the component
hooks == <<status, result, error, stream, pendingBlob, isSaving, saveSuccess>>

\* The render that follows a handler or continuation that changed a state
\* hook: when the audio preview is part of it, the src expression creates an
\* object URL, and nothing revokes it.
Render ==
  objectUrls' =
    IF hooks' # hooks /\ PreviewShown'
      THEN (IF objectUrls < MaxUrls THEN objectUrls + 1 ELSE MaxUrls)
      ELSE objectUrls

\* a handler other than the download handlers: it exports nothing
Rendered == Render /\ UNCHANGED exported /\ UNCHANGED authVars

\* ---- capture ----------------------------------------------------------------
\* startRecording up to its await of getUserMedia
StartRecording ==
  /\ RecordShown
  /\ error' = NoError
  /\ result' = Null
  /\ pendingBlob' = Null
  /\ saveSuccess' = FALSE
  /\ audioChunksRef' = <<>>
  /\ micPending' = micPending + 1
  /\ UNCHANGED <<status, stream, isSaving, mediaRecorderRef, recorder,
                 liveTracks, transcribing, translating, saves, awaitingFresh>>

\* getUserMedia resolves; the recorder is created and started
MicGranted ==
  /\ micPending > 0
  /\ micPending' = micPending - 1
  /\ liveTracks' = liveTracks \cup {nextId}
  /\ stream' = nextId
  /\ mediaRecorderRef' = nextId
  /\ recorder' = Append(recorder, "recording")
  /\ status' = RECORDING
  /\ UNCHANGED <<result, error, pendingBlob, audioChunksRef, transcribing,
                 translating, awaitingFresh>>
  /\ UNCHANGED saveVars

\* getUserMedia resolves but new MediaRecorder(...) or recorder.start() throws:
\* the catch block runs with the stream already acquired and stored
MicRecorderThrows ==
  /\ micPending > 0
  /\ micPending' = micPending - 1
  /\ liveTracks' = liveTracks \cup {nextId}
  /\ stream' = nextId
  /\ \E started \in BOOLEAN :
       mediaRecorderRef' = IF started THEN nextId ELSE mediaRecorderRef
  /\ recorder' = Append(recorder, "inactive")
  /\ error' = MicMessage
  /\ status' = IDLE
  /\ UNCHANGED <<result, pendingBlob, audioChunksRef, transcribing, translating,
                 awaitingFresh>>
  /\ UNCHANGED saveVars

\* getUserMedia rejects (denied or no device): the catch block
MicDenied ==
  /\ micPending > 0
  /\ micPending' = micPending - 1
  /\ error' = MicMessage
  /\ status' = IDLE
  /\ UNCHANGED <<result, stream, pendingBlob, mediaRecorderRef, audioChunksRef,
                 recorder, liveTracks, transcribing, translating,
                 awaitingFresh>>
  /\ UNCHANGED saveVars

\* stopRecording: MediaRecorder.stop() inactivates the recorder and queues the
\* task that fires dataavailable and stop; the tracks of `stream` are stopped
StopRecording ==
  /\ StopShown
  /\ IF mediaRecorderRef # NoHandle /\ status = RECORDING
       THEN /\ recorder' =
                 IF recorder[mediaRecorderRef] = "recording"
                   THEN [recorder EXCEPT ![mediaRecorderRef] = "stopping"]
                   ELSE recorder
            /\ liveTracks' = liveTracks \ {stream}
            /\ stream' = NoHandle
       ELSE UNCHANGED <<recorder, liveTracks, stream>>
  /\ UNCHANGED <<status, result, error, pendingBlob, mediaRecorderRef,
                 audioChunksRef, micPending, transcribing, translating,
                 awaitingFresh>>
  /\ UNCHANGED saveVars

\* an onstop that treats a capture without data as a failure
RecorderStopEvent_RejectsEmpty(id) ==
  /\ id \in 1..Len(recorder)
  /\ recorder[id] = "stopping"
  /\ recorder' = [recorder EXCEPT ![id] = "inactive"]
  /\ \E hasData \in BOOLEAN :
       /\ audioChunksRef' = IF hasData THEN Append(audioChunksRef, id) ELSE audioChunksRef
       /\ IF audioChunksRef' = <<>>
            THEN error' = MicMessage /\ status' = IDLE /\ UNCHANGED pendingBlob
            ELSE /\ pendingBlob' = RecordedBlob(audioChunksRef')
                 /\ status' = RECORDED
                 /\ UNCHANGED error
  /\ UNCHANGED <<result, stream, mediaRecorderRef, micPending,
                 liveTracks, transcribing, translating, awaitingFresh>>
  /\ UNCHANGED saveVars

\* the queued task of a stopped recorder: ondataavailable (pushes the data when
\* its size is positive), then onstop
RecorderStopEvent(id) ==
  /\ id \in 1..Len(recorder)
  /\ recorder[id] = "stopping"
  /\ recorder' = [recorder EXCEPT ![id] = "inactive"]
  /\ \E hasData \in BOOLEAN :
       /\ audioChunksRef' = IF hasData THEN Append(audioChunksRef, id) ELSE audioChunksRef
       /\ pendingBlob' = RecordedBlob(audioChunksRef')
  /\ status' = RECORDED
  /\ UNCHANGED <<result, error, stream, mediaRecorderRef, micPending,
                 liveTracks, transcribing, translating, awaitingFresh>>
  /\ UNCHANGED saveVars

\* handleFileChange without its check of file.type
FileChange_AnyType(file) ==
  /\ UploadShown
  /\ IF file = NoFile
       THEN UNCHANGED <<error, pendingBlob, status>>
       ELSE /\ error' = NoError
            /\ pendingBlob' = file
            /\ status' = RECORDED
  /\ UNCHANGED <<result, transcribing, translating, awaitingFresh>>
  /\ UNCHANGED captureVars
  /\ UNCHANGED saveVars

\* handleFileChange: the change event of the file input, with the file chosen
\* or with none (the dialog was cancelled)
FileChange(file) ==
  /\ UploadShown
  /\ IF file = NoFile
       THEN UNCHANGED <<error, pendingBlob, status>>
       ELSE IF ~IsAudioType(file)
       THEN /\ error' = FileMessage
            /\ UNCHANGED <<pendingBlob, status>>
       ELSE /\ error' = NoError
            /\ pendingBlob' = file
            /\ status' = RECORDED
  /\ UNCHANGED <<result, transcribing, translating, awaitingFresh>>
  /\ UNCHANGED captureVars
  /\ UNCHANGED saveVars

\* reset without its setError(null)
Reset_KeepsError ==
  /\ ClearAllShown
  /\ status' = IDLE
  /\ result' = Null
  /\ pendingBlob' = Null
  /\ saveSuccess' = FALSE
  /\ transcribing' = MarkStale(transcribing)
  /\ translating' = MarkStale(translating)
  /\ awaitingFresh' = TRUE
  /\ UNCHANGED <<error, isSaving, saves>>
  /\ UNCHANGED captureVars

\* reset (Clear All)
Reset ==
  /\ ClearAllShown
  /\ status' = IDLE
  /\ result' = Null
  /\ pendingBlob' = Null
  /\ error' = NoError
  /\ saveSuccess' = FALSE
  /\ transcribing' = MarkStale(transcribing)
  /\ translating' = MarkStale(translating)
  /\ awaitingFresh' = TRUE
  /\ UNCHANGED <<isSaving, saves>>
  /\ UNCHANGED captureVars

\* ---- transcribe -------------------------------------------------------------
\* handleTranscribeNow up to its first await; the call keeps the pendingBlob it
\* closed over
TranscribeNow ==
  /\ TranscribeShown
  /\ pendingBlob # Null
  /\ status' = TRANSCRIBING
  /\ transcribing' = transcribing (+) One([blob |-> pendingBlob, stale |-> FALSE])
  /\ UNCHANGED <<result, error, pendingBlob, translating, awaitingFresh>>
  /\ UNCHANGED captureVars
  /\ UNCHANGED saveVars

\* a catch block that sets the message and leaves the status alone
TranscribeCatch_KeepsStatus(call, message) ==
  /\ BagIn(call, transcribing)
  /\ transcribing' = transcribing (-) One(call)
  /\ error' = IF Truthy(message) THEN message ELSE TranscribeDefaultMessage
  /\ UNCHANGED <<status, result, pendingBlob, translating, awaitingFresh>>
  /\ UNCHANGED captureVars
  /\ UNCHANGED saveVars

\* the catch block of handleTranscribeNow, with the message of what was thrown
TranscribeCatch(call, message) ==
  /\ BagIn(call, transcribing)
  /\ transcribing' = transcribing (-) One(call)
  /\ error' = IF Truthy(message) THEN message ELSE TranscribeDefaultMessage
  /\ status' = ERROR
  /\ UNCHANGED <<result, pendingBlob, translating, awaitingFresh>>
  /\ UNCHANGED captureVars
  /\ UNCHANGED saveVars

\* blobToBase64 rejects (reader.onerror = reject: the event has no message)
EncodeFail(call) == TranscribeCatch(call, Undefined)

\* transcribeAmharic throws its Error
TranscribeFail(call) == TranscribeCatch(call, TranscribeEngineMessage)

\* a result built from the pendingBlob of the time the engine answers instead of
\* the one the call closed over
NewResult_CurrentBlob(text, now, blob) ==
  [text |-> text, translatedText |-> Undefined, timestamp |-> now,
   audioBlob |-> pendingBlob]

\* the result handleTranscribeNow builds
NewResult(text, now, blob) ==
  [text |-> text, translatedText |-> Undefined, timestamp |-> now, audioBlob |-> blob]

\* blobToBase64 resolved and transcribeAmharic returns
TranscribeOk(call, responseText, now) ==
  /\ BagIn(call, transcribing)
  /\ transcribing' = transcribing (-) One(call)
  /\ result' = NewResult(TranscribeReturn(responseText), now, call.blob)
  /\ status' = COMPLETED
  /\ awaitingFresh' = IF call.stale THEN awaitingFresh ELSE FALSE
  /\ UNCHANGED <<error, pendingBlob, translating>>
  /\ UNCHANGED captureVars
  /\ UNCHANGED saveVars

\* ---- translate --------------------------------------------------------------
\* handleTranslateNow up to its await of translateToEnglish(result.text)
TranslateNow ==
  /\ TranslateEnabled
  /\ result # Null
  /\ status' = TRANSLATING
  /\ translating' = translating (+) One([stale |-> FALSE])
  /\ UNCHANGED <<result, error, pendingBlob, transcribing, awaitingFresh>>
  /\ UNCHANGED captureVars
  /\ UNCHANGED saveVars

\* setResult(prev => prev ? { ...prev, translatedText } : null)
WithTranslation(prev, translatedText) ==
  IF prev # Null THEN [prev EXCEPT !.translatedText = translatedText] ELSE Null

\* a continuation that also clears the error message on success
TranslateOk_ClearsError(call, responseText) ==
  /\ BagIn(call, translating)
  /\ translating' = translating (-) One(call)
  /\ result' = WithTranslation(result, TranslateReturn(responseText))
  /\ status' = COMPLETED
  /\ error' = NoError
  /\ UNCHANGED <<pendingBlob, transcribing, awaitingFresh>>
  /\ UNCHANGED captureVars
  /\ UNCHANGED saveVars

\* translateToEnglish returns
TranslateOk(call, responseText) ==
  /\ BagIn(call, translating)
  /\ translating' = translating (-) One(call)
  /\ result' = WithTranslation(result, TranslateReturn(responseText))
  /\ status' = COMPLETED
  /\ UNCHANGED <<error, pendingBlob, transcribing, awaitingFresh>>
  /\ UNCHANGED captureVars
  /\ UNCHANGED saveVars

\* a catch block that ends in ERROR, as the one of handleTranscribeNow does
TranslateFail_ToError(call) ==
  /\ BagIn(call, translating)
  /\ translating' = translating (-) One(call)
  /\ error' = TranslateEngineMessage
  /\ status' = ERROR
  /\ UNCHANGED <<result, pendingBlob, transcribing, awaitingFresh>>
  /\ UNCHANGED captureVars
  /\ UNCHANGED saveVars

\* translateToEnglish throws its Error: the catch block of handleTranslateNow
TranslateFail(call) ==
  /\ BagIn(call, translating)
  /\ translating' = translating (-) One(call)
  /\ error' = IF Truthy(TranslateEngineMessage) THEN TranslateEngineMessage
              ELSE "An error occurred during translation."
  /\ status' = COMPLETED
  /\ UNCHANGED <<result, pendingBlob, transcribing, awaitingFresh>>
  /\ UNCHANGED captureVars
  /\ UNCHANGED saveVars

\* ---- edit -------------------------------------------------------------------
\* an update that rebuilds both text fields instead of spreading prev
WithField_ResetsOther(prev, field, value) ==
  IF prev # Null
    THEN [[prev EXCEPT !.text = "", !.translatedText = Undefined] EXCEPT ![field] = value]
    ELSE Null

\* setResult(prev => prev ? { ...prev, [field]: value } : null)
WithField(prev, field, value) ==
  IF prev # Null THEN [prev EXCEPT ![field] = value] ELSE Null

\* handleTextChange, from the textarea of `field`
TextChange(field, value) ==
  /\ IF field = "text" THEN ResultShown ELSE TranslationShown
  /\ result' = WithField(result, field, value)
  /\ UNCHANGED <<status, error, pendingBlob, transcribing, translating, awaitingFresh>>
  /\ UNCHANGED captureVars
  /\ UNCHANGED saveVars

\* ---- save -------------------------------------------------------------------
\* handleSaveToCloud up to its await of saveTranscription
SaveToCloud ==
  /\ SaveEnabled
  /\ result # Null
  /\ isSaving' = TRUE
  /\ saveSuccess' = FALSE
  /\ saves' = saves + 1
  /\ UNCHANGED <<status, result, error, pendingBlob, transcribing,
                 translating, awaitingFresh>>
  /\ UNCHANGED captureVars

\* handleSaveToCloud called with no result: `if (!result) return`
SaveWithoutResult ==
  /\ result = Null
  /\ UNCHANGED <<status, result, error, pendingBlob, transcribing, translating,
                 awaitingFresh>>
  /\ UNCHANGED captureVars
  /\ UNCHANGED saveVars

\* saveTranscription returns: the try block's tail (which also starts the timer
\* of SaveSuccessTimeout), then finally
SaveOk ==
  /\ saves > 0
  /\ saves' = saves - 1
  /\ saveSuccess' = TRUE
  /\ isSaving' = FALSE
  /\ UNCHANGED <<status, result, error, pendingBlob, transcribing, translating,
                 awaitingFresh>>
  /\ UNCHANGED captureVars

\* a catch block that also moves the workflow to ERROR
SaveFail_ToError(message) ==
  /\ saves > 0
  /\ saves' = saves - 1
  /\ error' = message
  /\ status' = ERROR
  /\ isSaving' = FALSE
  /\ UNCHANGED <<result, pendingBlob, saveSuccess, transcribing,
                 translating, awaitingFresh>>
  /\ UNCHANGED captureVars

\* saveTranscription throws (no user, or the store's error): catch, then finally
SaveFail(message) ==
  /\ saves > 0
  /\ saves' = saves - 1
  /\ error' = message
  /\ isSaving' = FALSE
  /\ UNCHANGED <<status, result, pendingBlob, saveSuccess, transcribing,
                 translating, awaitingFresh>>
  /\ UNCHANGED captureVars

\* setTimeout(() => setSaveSuccess(false), 3000) fires. Whenever saveSuccess is
\* true the timer of the save that set it is still pending, and a timer that
\* fires while saveSuccess is false changes nothing, so the pending timers need
\* no state of their own.
SaveSuccessTimeout ==
  /\ saveSuccess
  /\ saveSuccess' = FALSE
  /\ UNCHANGED <<status, result, error, pendingBlob, isSaving, saves, transcribing,
                 translating, awaitingFresh>>
  /\ UNCHANGED captureVars

\* ---- export ------------------------------------------------------------------
\* new Blob([content], { type: 'text/plain;charset=utf-8' }) of downloadTranscription:
\* the Amharic text, and the translation when it is truthy
TextBlob(r) ==
  [src |-> "text", name |-> "", major |-> "text", sub |-> "plain;charset=utf-8",
   parts |-> IF Truthy(r.translatedText) THEN <<r.text, r.translatedText>> ELSE <<r.text>>]

\* const blob = result?.audioBlob || pendingBlob
DownloadBlob == IF result # Null THEN result.audioBlob ELSE pendingBlob

\* blob.type.split('/')[1] || 'webm'
Extension(blob) == IF blob.sub # "" THEN blob.sub ELSE "webm"

\* createObjectURL, a.click() and revokeObjectURL in one handler: the anchor
\* hands out the blob, and the URL made for it is revoked again
Click(blob, extension) ==
  /\ exported' = [href |-> blob, extension |-> extension]
  /\ objectUrls' = (objectUrls + 1) - 1

\* downloadTranscription (the button is part of the result panel)
DownloadTranscription ==
  /\ ResultShown
  /\ result # Null
  /\ Click(TextBlob(result), "txt")
  /\ UNCHANGED <<status, result, error, pendingBlob, transcribing, translating,
                 awaitingFresh>>
  /\ UNCHANGED captureVars
  /\ UNCHANGED saveVars
  /\ UNCHANGED authVars

\* a download that also gives up the pending audio
DownloadAudio_ClearsPending ==
  /\ ResultShown
  /\ DownloadBlob # Null
  /\ Click(DownloadBlob, Extension(DownloadBlob))
  /\ pendingBlob' = Null
  /\ UNCHANGED <<status, result, error, transcribing, translating, awaitingFresh>>
  /\ UNCHANGED captureVars
  /\ UNCHANGED saveVars
  /\ UNCHANGED authVars

\* downloadAudio (the button is part of the result panel)
DownloadAudio ==
  /\ ResultShown
  /\ DownloadBlob # Null
  /\ Click(DownloadBlob, Extension(DownloadBlob))
  /\ UNCHANGED <<status, result, error, pendingBlob, transcribing, translating,
                 awaitingFresh>>
  /\ UNCHANGED captureVars
  /\ UNCHANGED saveVars
  /\ UNCHANGED authVars

\* ---- the component ------------------------------------------------------------
\* every handler and completion except the two download handlers (ExportNext
\* has them too)
Next ==
  \/ \E file \in Files \cup {NoFile} : FileChange(file) /\ Rendered
  \/ (BagCardinality(transcribing) < MaxCalls /\ TranscribeNow /\ Rendered)
  \/ Reset /\ Rendered
  \/ \E call \in BagToSet(transcribing), responseText \in EngineTexts, now \in Times :
       TranscribeOk(call, responseText, now) /\ Rendered
  \/ \E call \in BagToSet(transcribing) : TranscribeFail(call) /\ Rendered
  \/ \E call \in BagToSet(transcribing) : EncodeFail(call) /\ Rendered
  \/ (BagCardinality(translating) < MaxCalls /\ TranslateNow /\ Rendered)
  \/ \E call \in BagToSet(translating), responseText \in TranslationTexts :
       TranslateOk(call, responseText) /\ Rendered
  \/ \E call \in BagToSet(translating) : TranslateFail(call) /\ Rendered
  \/ \E field \in {"text", "translatedText"}, value \in TypedTexts :
       TextChange(field, value) /\ Rendered
  \/ SaveToCloud /\ Rendered
  \/ SaveWithoutResult /\ Rendered
  \/ SaveOk /\ Rendered
  \/ \E message \in {SaveUnauthMessage, SaveStoreMessage} : SaveFail(message) /\ Rendered
  \/ SaveSuccessTimeout /\ Rendered
  \/ (Len(recorder) + micPending < MaxRec /\ StartRecording /\ Rendered)
  \/ MicGranted /\ Rendered
  \/ MicDenied /\ Rendered
  \/ MicRecorderThrows /\ Rendered
  \/ StopRecording /\ Rendered
  \/ \E id \in 1..Len(recorder) : RecorderStopEvent(id) /\ Rendered

Spec == Init /\ [][Next]_vars

\* What the environment owes the component: the engine answers every transcribe
\* and translate call (with a text or a failure, a failed read of the audio
\* included), the store answers every save, and the task queued by
\* MediaRecorder.stop() runs.
TranscribeAnswer ==
  \E call \in BagToSet(transcribing) :
    /\ \/ \E responseText \in EngineTexts, now \in Times : TranscribeOk(call, responseText, now)
       \/ TranscribeFail(call)
       \/ EncodeFail(call)
    /\ Rendered

TranslateAnswer ==
  \E call \in BagToSet(translating) :
    /\ \/ \E responseText \in TranslationTexts : TranslateOk(call, responseText)
       \/ TranslateFail(call)
    /\ Rendered

SaveAnswer ==
  /\ SaveOk \/ \E message \in {SaveUnauthMessage, SaveStoreMessage} : SaveFail(message)
  /\ Rendered

RecorderTask == \E id \in 1..Len(recorder) : RecorderStopEvent(id) /\ Rendered

\* The component with one text per input: an empty engine answer (stored as the
\* sentinel), one translation, and an edit that empties the textarea (which
\* brings the Translate button back). The texts decide nothing else, and every
\* handler and every completion is here as in Next.
LiveNext ==
  \/ \E file \in Files \cup {NoFile} : FileChange(file) /\ Rendered
  \/ (BagCardinality(transcribing) < MaxCalls /\ TranscribeNow /\ Rendered)
  \/ Reset /\ Rendered
  \/ \E call \in BagToSet(transcribing), now \in Times : TranscribeOk(call, "", now) /\ Rendered
  \/ \E call \in BagToSet(transcribing) : TranscribeFail(call) /\ Rendered
  \/ \E call \in BagToSet(transcribing) : EncodeFail(call) /\ Rendered
  \/ (BagCardinality(translating) < MaxCalls /\ TranslateNow /\ Rendered)
  \/ \E call \in BagToSet(translating) : TranslateOk(call, "Hello") /\ Rendered
  \/ \E call \in BagToSet(translating) : TranslateFail(call) /\ Rendered
  \/ \E field \in {"text", "translatedText"} : TextChange(field, "") /\ Rendered
  \/ SaveToCloud /\ Rendered
  \/ SaveWithoutResult /\ Rendered
  \/ SaveOk /\ Rendered
  \/ \E message \in {SaveUnauthMessage, SaveStoreMessage} : SaveFail(message) /\ Rendered
  \/ SaveSuccessTimeout /\ Rendered
  \/ (Len(recorder) + micPending < MaxRec /\ StartRecording /\ Rendered)
  \/ MicGranted /\ Rendered
  \/ MicDenied /\ Rendered
  \/ MicRecorderThrows /\ Rendered
  \/ StopRecording /\ Rendered
  \/ \E id \in 1..Len(recorder) : RecorderStopEvent(id) /\ Rendered

FairSpec ==
  /\ Init /\ [][LiveNext]_vars
  /\ WF_vars(TranscribeAnswer)
  /\ WF_vars(TranslateAnswer)
  /\ WF_vars(SaveAnswer)
  /\ WF_vars(RecorderTask)

\* The component with its two download handlers. What a download hands out is
\* kept in `exported`, which no other handler reads or writes; the texts are
\* those of LiveNext.
ExportNext ==
  \/ \E file \in Files \cup {NoFile} : FileChange(file) /\ Rendered
  \/ (BagCardinality(transcribing) < MaxCalls /\ TranscribeNow /\ Rendered)
  \/ Reset /\ Rendered
  \/ \E call \in BagToSet(transcribing), now \in Times : TranscribeOk(call, "", now) /\ Rendered
  \/ \E call \in BagToSet(transcribing) : TranscribeFail(call) /\ Rendered
  \/ \E call \in BagToSet(transcribing) : EncodeFail(call) /\ Rendered
  \/ (BagCardinality(translating) < MaxCalls /\ TranslateNow /\ Rendered)
  \/ \E call \in BagToSet(translating) : TranslateOk(call, "Hello") /\ Rendered
  \/ \E call \in BagToSet(translating) : TranslateFail(call) /\ Rendered
  \/ \E field \in {"text", "translatedText"} : TextChange(field, "") /\ Rendered
  \/ SaveToCloud /\ Rendered
  \/ SaveWithoutResult /\ Rendered
  \/ SaveOk /\ Rendered
  \/ \E message \in {SaveUnauthMessage, SaveStoreMessage} : SaveFail(message) /\ Rendered
  \/ SaveSuccessTimeout /\ Rendered
  \/ (Len(recorder) + micPending < MaxRec /\ StartRecording /\ Rendered)
  \/ MicGranted /\ Rendered
  \/ MicDenied /\ Rendered
  \/ MicRecorderThrows /\ Rendered
  \/ StopRecording /\ Rendered
  \/ \E id \in 1..Len(recorder) : RecorderStopEvent(id) /\ Rendered
  \/ DownloadTranscription
  \/ DownloadAudio

ExportSpec == Init /\ [][ExportNext]_vars

\* The capture side of the component on its own, with room for a second
\* microphone request: Record Now, the outcomes of getUserMedia, Stop, the
\* recorder's stop task, and the two handlers that can run in between.
CaptureNext ==
  \/ (Len(recorder) + micPending < MaxCaptures /\ StartRecording /\ Rendered)
  \/ MicGranted /\ Rendered
  \/ MicDenied /\ Rendered
  \/ MicRecorderThrows /\ Rendered
  \/ StopRecording /\ Rendered
  \/ \E id \in 1..Len(recorder) : RecorderStopEvent(id) /\ Rendered
  \/ \E file \in Files \cup {NoFile} : FileChange(file) /\ Rendered
  \/ Reset /\ Rendered

CaptureSpec == Init /\ [][CaptureNext]_vars

\* ---- AuthUI and the session of App -------------------------------------------
\* what can be typed into the two inputs; a password is kept as its length
Emails == {"", "ab", "a@b.c"}
Passwords == {0, 5, 6}
\* <input type="email" required>: the browser lets the form submit only with a
\* well-formed address
EmailValid(e) == e = "a@b.c"
\* <input type="password" required minLength={6}>
PasswordValid(p) == p >= 6
\* the messages of the errors the provider returns or throws
ProviderMessages == {"Invalid login credentials", ""}
AuthDefaultMessage == "An authentication error occurred."
CheckEmailMessage == "Check your email for the confirmation link!"

\* the App after getSession() found no session: AuthUI is mounted
AuthInit ==
  /\ status = IDLE
  /\ result = Null
  /\ error = NoError
  /\ stream = NoHandle
  /\ pendingBlob = Null
  /\ isSaving = FALSE
  /\ saveSuccess = FALSE
  /\ mediaRecorderRef = NoHandle
  /\ audioChunksRef = <<>>
  /\ micPending = 0
  /\ recorder = <<>>
  /\ liveTracks = {}
  /\ transcribing = EmptyBag
  /\ translating = EmptyBag
  /\ saves = 0
  /\ awaitingFresh = FALSE
  /\ objectUrls = 0
  /\ exported = Null
  /\ session = FALSE
  /\ isLogin = TRUE
  /\ email = ""
  /\ password = 0
  /\ loading = FALSE
  /\ authError = NoError
  /\ authMessage = NoError
  /\ authCalls = EmptyBag

\* {session ? <TranscriberUI/> : <AuthUI/>}
AuthShown == ~session
\* a submit button that is never disabled
SubmitEnabled_WhileLoading == AuthShown

\* <button type="submit" disabled={loading}> in a form whose inputs are valid
SubmitEnabled == AuthShown /\ ~loading
FormValid == EmailValid(email) /\ PasswordValid(password)

\* onChange of the email input
SetEmail(value) ==
  /\ AuthShown
  /\ email' = value
  /\ UNCHANGED <<session, isLogin, password, loading, authError, authMessage, authCalls>>
  /\ UNCHANGED transcriberVars

\* onChange of the password input
SetPassword(value) ==
  /\ AuthShown
  /\ password' = value
  /\ UNCHANGED <<session, isLogin, email, loading, authError, authMessage, authCalls>>
  /\ UNCHANGED transcriberVars

\* onClick={() => setIsLogin(!isLogin)}
ToggleMode ==
  /\ AuthShown
  /\ isLogin' = ~isLogin
  /\ UNCHANGED <<session, email, password, loading, authError, authMessage, authCalls>>
  /\ UNCHANGED transcriberVars

\* handleSubmit up to its await: the call is made in the mode of this render
Submit ==
  /\ SubmitEnabled
  /\ FormValid
  /\ loading' = TRUE
  /\ authError' = NoError
  /\ authMessage' = NoError
  /\ authCalls' = authCalls (+) One([login |-> isLogin])
  /\ UNCHANGED <<session, isLogin, email, password>>
  /\ UNCHANGED transcriberVars

\* signIn resolves without an error: the provider announces the session (App's
\* onAuthStateChange stores it), then the finally block runs
SignInOk(call) ==
  /\ call \in BagToSet(authCalls)
  /\ call.login
  /\ authCalls' = authCalls (-) One(call)
  /\ session' = TRUE
  /\ loading' = FALSE
  /\ UNCHANGED <<isLogin, email, password, authError, authMessage>>
  /\ UNCHANGED transcriberVars

\* signUp resolves without an error, with or without a user and a session
SignUpOk(call, user, withSession) ==
  /\ call \in BagToSet(authCalls)
  /\ ~call.login
  /\ withSession => user
  /\ authCalls' = authCalls (-) One(call)
  /\ authMessage' = IF user /\ ~withSession THEN CheckEmailMessage ELSE authMessage
  /\ session' = (session \/ withSession)
  /\ loading' = FALSE
  /\ UNCHANGED <<isLogin, email, password, authError>>
  /\ UNCHANGED transcriberVars

\* signIn or signUp returns an error or throws: the catch block, then finally
AuthFail(call, text) ==
  /\ call \in BagToSet(authCalls)
  /\ authCalls' = authCalls (-) One(call)
  /\ authError' = IF Truthy(text) THEN text ELSE AuthDefaultMessage
  /\ loading' = FALSE
  /\ UNCHANGED <<session, isLogin, email, password, authMessage>>
  /\ UNCHANGED transcriberVars

\* handleLogout: signOut() ends the session and AuthUI mounts with its initial
\* state
Logout ==
  /\ session
  /\ session' = FALSE
  /\ isLogin' = TRUE
  /\ email' = ""
  /\ password' = 0
  /\ loading' = FALSE
  /\ authError' = NoError
  /\ authMessage' = NoError
  /\ UNCHANGED authCalls
  /\ UNCHANGED transcriberVars

AuthNext ==
  \/ \E value \in Emails : SetEmail(value)
  \/ \E value \in Passwords : SetPassword(value)
  \/ ToggleMode
  \/ Submit
  \/ \E call \in BagToSet(authCalls) : SignInOk(call)
  \/ \E call \in BagToSet(authCalls), user \in BOOLEAN, withSession \in BOOLEAN :
       SignUpOk(call, user, withSession)
  \/ \E call \in BagToSet(authCalls), text \in ProviderMessages : AuthFail(call, text)
  \/ Logout

AuthSpec == AuthInit /\ [][AuthNext]_vars

\* ---- the claims ---------------------------------------------------------------
InFlight(calls) == BagCardinality(calls)
SomeStale(calls) == \E call \in BagToSet(calls) : call.stale

\* C1: a reset, in whatever state it is invoked and whatever is still in flight,
\* leaves status IDLE with no pending audio, no result and no error message.
C1_ResetLeavesIdle ==
  [][Reset => (status' = IDLE /\ pendingBlob' = Null /\ result' = Null /\ error' = NoError)]_vars

\* a reset has run while a transcribe call was in flight, and the workflow is idle
C1_Witness ==
  /\ status = IDLE /\ pendingBlob = Null /\ result = Null /\ error = NoError
  /\ SomeStale(transcribing)

\* C2: after a reset there is no result and the status is not COMPLETED until a
\* transcribe invoked after that reset has succeeded (so the completion of a call
\* dispatched before the reset changes neither).
C2_NoResultUntilFreshTranscribe ==
  awaitingFresh => (result = Null /\ status # COMPLETED)

\* C3: when a translate call fails, the result is left as it was (text unchanged,
\* translatedText not set by the failure), the status becomes COMPLETED and the
\* error message is set.
C3_TranslateFailureKeepsResult ==
  [][(\E call \in BagToSet(translating) : TranslateFail(call)) =>
       /\ result' = result
       /\ status' = COMPLETED
       /\ status' # ERROR
       /\ error' # NoError]_vars

\* a translate call failed after a successful transcription
C3_Witness ==
  /\ status = COMPLETED
  /\ error = TranslateEngineMessage
  /\ result # Null
  /\ result.text = "selam"
  /\ result.translatedText = Undefined
  /\ InFlight(translating) = 0

\* C4: a transcribe call ends in one of two ways. When the engine answers, the
\* status is COMPLETED and the result has the engine's text, no translatedText and
\* the audio that was submitted; when the engine fails, the status is ERROR, the
\* error message is set and no result is created.
C4_TranscribeOutcome ==
  [][/\ \A call \in BagToSet(transcribing), responseText \in EngineTexts, now \in Times :
          TranscribeOk(call, responseText, now) =>
            /\ status' = COMPLETED
            /\ result' # Null
            /\ result'.text = TranscribeReturn(responseText)
            /\ result'.translatedText = Undefined
            /\ result'.audioBlob = call.blob
            /\ error' = error
     /\ \A call \in BagToSet(transcribing) :
          TranscribeFail(call) =>
            /\ status' = ERROR
            /\ error' # NoError
            /\ result' = result]_vars

\* a transcribe call of an uploaded file succeeded after the pending audio it was
\* dispatched with had been discarded
C4_Witness ==
  /\ status = COMPLETED
  /\ result # Null
  /\ result.text = "selam"
  /\ result.translatedText = Undefined
  /\ result.audioBlob \in Files
  /\ pendingBlob = Null

\* C5: whenever the status is RECORDED there is a pending audio object and no
\* result.
C5_CapturedHasAudioAndNoResult ==
  status = RECORDED => (pendingBlob # Null /\ result = Null)

\* C6: whenever the status is COMPLETED or ERROR, a result or an error message is
\* present.
C6_DoneHasResultOrError ==
  status \in {COMPLETED, ERROR} => (result # Null \/ error # NoError)

\* C7: at most one transcribe call and at most one translate call is in flight.
C7_OneCallPerKind ==
  InFlight(transcribing) <= 1 /\ InFlight(translating) <= 1

\* C8: the status is TRANSCRIBING exactly when a transcribe call is in flight and
\* TRANSLATING exactly when a translate call is in flight.
C8_StatusEncodesPendingCall ==
  /\ status = TRANSCRIBING <=> InFlight(transcribing) > 0
  /\ status = TRANSLATING <=> InFlight(translating) > 0

\* C9: no step of a save (its invocation with or without a result, its success,
\* its failure) changes the status, the result or the pending audio; a request is
\* only sent when a result is present; a save that fails for want of a signed-in
\* user puts that failure in the error message.
C9_SaveChangesNoWorkflowState ==
  [][/\ (SaveToCloud \/ SaveWithoutResult \/ SaveOk
           \/ \E message \in {SaveUnauthMessage, SaveStoreMessage} : SaveFail(message))
          => UNCHANGED <<status, result, pendingBlob>>
     /\ saves' > saves => result # Null
     /\ SaveWithoutResult => UNCHANGED <<error, saves, isSaving, saveSuccess>>
     /\ SaveFail(SaveUnauthMessage) => error' = SaveUnauthMessage]_vars

\* a save failed for want of a signed-in user and the workflow is still COMPLETED
\* with its translated result
C9_Witness ==
  /\ error = SaveUnauthMessage
  /\ status = COMPLETED
  /\ result # Null
  /\ result.translatedText = "Hello"
  /\ ~isSaving

\* C10: isSaving is true exactly while a save request is outstanding, and at most
\* one is outstanding at any time.
C10_SaveFlag ==
  /\ isSaving <=> saves > 0
  /\ saves <= 1

\* a save request is outstanding
C10_Witness == isSaving /\ saves = 1 /\ result # Null

\* C11: whenever the status is not RECORDING, no acquired microphone stream has
\* live (unstopped) tracks.
C11_MicReleasedOutsideCapture ==
  status # RECORDING => liveTracks = {}

\* C12: when getUserMedia rejects, the step that handles it ends with status
\* IDLE, the microphone message in error, no pending audio and no result.
C12_MicDeniedLeavesNothing ==
  [][MicDenied =>
       /\ status' = IDLE
       /\ error' = MicMessage
       /\ pendingBlob' = Null
       /\ result' = Null]_vars

\* C13: an upload of a file whose type begins with "audio/" ends with status
\* RECORDED, that file as the pending audio and no error message; an upload of
\* a file of any other type sets the invalid-file message and leaves status,
\* pending audio and result as they were.
C13_UploadAcceptsAudioOnly ==
  [][\A file \in Files :
       FileChange(file) =>
         IF IsAudioType(file)
           THEN status' = RECORDED /\ pendingBlob' = file /\ error' = NoError
           ELSE error' = FileMessage /\ UNCHANGED <<status, pendingBlob, result>>]_vars

\* an audio file has been uploaded and is the pending audio
C13_Witness ==
  /\ status = RECORDED
  /\ pendingBlob \in Files
  /\ IsAudioType(pendingBlob)
  /\ error = NoError

\* C14: a set error message becomes unset only by a reset, by the start of a
\* capture or by an upload; every failure (microphone, upload of a non-audio
\* file, encode, transcribe, translate, save) puts its own message in the error
\* field, replacing what was there.
C14_ErrorLifecycle ==
  [][/\ (error # NoError /\ error' = NoError) =>
          (Reset \/ StartRecording \/ \E file \in Files : FileChange(file))
     /\ (MicDenied \/ MicRecorderThrows) => error' = MicMessage
     /\ \A file \in Files :
          (FileChange(file) /\ ~IsAudioType(file)) => error' = FileMessage
     /\ \A call \in BagToSet(transcribing) :
          /\ EncodeFail(call) => error' = TranscribeDefaultMessage
          /\ TranscribeFail(call) => error' = TranscribeEngineMessage
     /\ \A call \in BagToSet(translating) :
          TranslateFail(call) => error' = TranslateEngineMessage
     /\ \A message \in {SaveUnauthMessage, SaveStoreMessage} :
          SaveFail(message) => error' = message]_vars

\* a translation failed and a later one succeeded: the message of the failure is
\* still there
C14_Witness ==
  /\ error = TranslateEngineMessage
  /\ result # Null
  /\ result.translatedText = "Hello"
  /\ status = COMPLETED

C16_EditReplacesOneField ==
  [][\A field \in {"text", "translatedText"}, value \in TypedTexts :
       /\ WithField(Null, field, value) = Null
       /\ TextChange(field, value) =>
            /\ result' # Null
            /\ result'[field] = value
            /\ field = "text" => result'.translatedText = result.translatedText
            /\ field = "translatedText" => result'.text = result.text
            /\ result'.timestamp = result.timestamp
            /\ result'.audioBlob = result.audioBlob
            /\ UNCHANGED <<status, pendingBlob, error>>]_vars

\* the translation of a result has been edited; its text and audio are those of
\* the transcription
C16_Witness ==
  /\ result # Null
  /\ result.translatedText = "edited"
  /\ result.text = "selam"
  /\ result.audioBlob \in Files

\* C17: a failure to read the audio bytes ends with status IDLE or RECORDED and
\* an error message; the status becomes ERROR only by a failure of the
\* transcription engine call.
C17_EncodeErrorIsNotFailed ==
  [][/\ \A call \in BagToSet(transcribing) :
          EncodeFail(call) => (status' \in {IDLE, RECORDED} /\ error' # NoError)
     /\ (status # ERROR /\ status' = ERROR) =>
          \E call \in BagToSet(transcribing) : TranscribeFail(call)]_vars

\* C18: stopRecording in status RECORDING stops the recorder, and the stop of a
\* recorder leads to status RECORDED with one pending audio object of type
\* audio/webm made of the accumulated chunks in their order (none when no data
\* was captured) and no error set by it; stopRecording in any other status
\* changes nothing.
C18_StopYieldsRecordedAudio ==
  /\ [][/\ (StopRecording /\ status = RECORDING) =>
             /\ mediaRecorderRef # NoHandle
             /\ recorder'[mediaRecorderRef] = "stopping"
        /\ (StopRecording /\ status # RECORDING) => UNCHANGED vars
        /\ \A id \in 1..Len(recorder) :
             RecorderStopEvent(id) =>
               /\ status' = RECORDED
               /\ pendingBlob'.major = "audio" /\ pendingBlob'.sub = "webm"
               /\ pendingBlob'.parts = audioChunksRef'
               /\ audioChunksRef' \in {audioChunksRef, Append(audioChunksRef, id)}
               /\ error' = error]_vars
  /\ (/\ status = RECORDING /\ mediaRecorderRef # NoHandle
      /\ recorder[mediaRecorderRef] = "stopping") ~> (status = RECORDED)

\* a capture was stopped before any data arrived: an empty recording is the
\* pending audio, with no error
C18_Witness ==
  /\ status = RECORDED
  /\ pendingBlob = RecordedBlob(<<>>)
  /\ error = NoError
  /\ liveTracks = {}

\* C19: provided the engine and the store answer, status TRANSCRIBING leads to
\* COMPLETED or ERROR, status TRANSLATING leads to COMPLETED, and isSaving leads
\* to isSaving being false.
C19_RequestsComplete ==
  /\ (status = TRANSCRIBING) ~> (status \in {COMPLETED, ERROR})
  /\ (status = TRANSLATING) ~> (status = COMPLETED)
  /\ isSaving ~> ~isSaving

\* a transcribe call, a translate call and a save have all completed
C19_Witness ==
  /\ status = COMPLETED
  /\ result # Null
  /\ result.translatedText = "Hello"
  /\ InFlight(transcribing) = 0 /\ InFlight(translating) = 0
  /\ saveSuccess /\ ~isSaving /\ saves = 0

\* C20: the status changes only along IDLE->RECORDING, IDLE->RECORDED,
\* RECORDING->RECORDED, RECORDING->IDLE, RECORDED->TRANSCRIBING,
\* TRANSCRIBING->COMPLETED, TRANSCRIBING->ERROR, COMPLETED->TRANSLATING,
\* ERROR->TRANSLATING, TRANSLATING->COMPLETED and from any status to IDLE.
C20_OnlyTableTransitions ==
  [][status' # status =>
       \/ status' = IDLE
       \/ <<status, status'>> \in
            { <<IDLE, RECORDING>>, <<IDLE, RECORDED>>, <<RECORDING, RECORDED>>,
              <<RECORDED, TRANSCRIBING>>, <<TRANSCRIBING, COMPLETED>>,
              <<TRANSCRIBING, ERROR>>, <<COMPLETED, TRANSLATING>>,
              <<ERROR, TRANSLATING>>, <<TRANSLATING, COMPLETED>> }]_vars

\* C23: a pending audio object and a result (which holds its audio) never exist
\* at the same time.
C23_AudioOwnedOnce ==
  ~(pendingBlob # Null /\ result # Null)

\* C24: an empty answer of the provider is a success. The transcribe call then
\* ends with status COMPLETED, the result's text "No transcription available."
\* and no error set by it; the translate call ends with status COMPLETED,
\* "Translation failed." as the translatedText of the result and no error set
\* by it.
C24_EmptyAnswerIsSuccess ==
  [][/\ \A call \in BagToSet(transcribing), now \in Times :
          TranscribeOk(call, "", now) =>
            /\ status' = COMPLETED
            /\ result' # Null
            /\ result'.text = "No transcription available."
            /\ error' = error
     /\ \A call \in BagToSet(translating) :
          (TranslateOk(call, "") /\ result # Null) =>
            /\ status' = COMPLETED
            /\ result' # Null
            /\ result'.translatedText = "Translation failed."
            /\ error' = error]_vars

\* both calls were answered with empty content: the sentinels are the texts of
\* the result, and there is no error
C24_Witness ==
  /\ status = COMPLETED
  /\ result # Null
  /\ result.text = "No transcription available."
  /\ result.translatedText = "Translation failed."
  /\ error = NoError

\* C25: the answer of a translate call that was dispatched before a reset (its
\* result has been discarded since) sets translatedText on no result: it leaves
\* the result, present or not, as it is.
C25_StaleTranslationIsDropped ==
  [][\A call \in BagToSet(translating), responseText \in TranslationTexts :
       (TranslateOk(call, responseText) /\ call.stale) => result' = result]_vars

\* C21: every object URL is released: the only URL that may be unrevoked is the
\* one of the audio preview now displayed, so the number of unrevoked URLs
\* stays at most one (and is zero when no preview is displayed).
C21_UrlsReleased ==
  objectUrls <= IF PreviewShown THEN 1 ELSE 0

\* C22: a download of the text or of the audio leaves status, result, pending
\* audio, error message and the save flags unchanged; the audio download hands
\* out the result's or the pending audio object itself, the text download the
\* text of the result; nothing is handed out when there is no result.
C22_DownloadsArePureExports ==
  [][/\ (DownloadTranscription \/ DownloadAudio) =>
          UNCHANGED <<status, result, pendingBlob, error, isSaving, saveSuccess>>
     /\ DownloadAudio =>
          /\ exported'.href # Null
          /\ exported'.href \in {DownloadBlob, pendingBlob}
          /\ exported'.extension = exported'.href.sub
     /\ DownloadTranscription =>
          /\ exported'.href.parts[1] = result.text
          /\ exported'.extension = "txt"
     /\ exported' # exported => result # Null]_vars

\* the audio of a result has been downloaded while a save was outstanding: the
\* result, the pending audio and the flag are still there
C22_Witness ==
  /\ exported # Null
  /\ result # Null
  /\ exported.href = result.audioBlob
  /\ pendingBlob # Null
  /\ isSaving
  /\ status = COMPLETED

\* C26: whenever the audio preview and the download button are both displayed,
\* the audio the preview plays is the audio the download hands out, and it is
\* the audio of the result (the one its text was transcribed from), also when
\* a pending audio and a result's audio are both present.
C26_PreviewIsDownload ==
  (PreviewShown /\ ResultShown) =>
     /\ PreviewAudio = DownloadBlob
     /\ PreviewAudio = result.audioBlob

\* C27: at most one microphone stream is live at any time, and while a capture
\* is running it is the one held in `stream`, the one Stop Recording stops: a
\* further Record Now or an upload made while a microphone request is pending or
\* a capture is running starts no second capture and does not overwrite it.
C27_OneCaptureHandle ==
  /\ Cardinality(liveTracks) <= 1
  /\ status = RECORDING => liveTracks \subseteq {stream}

\* C28: the loading flag is true exactly while a sign-in or sign-up request is
\* outstanding and every outcome clears it; a submit clears error and message;
\* a provider error sets the error message and no confirmation message; a
\* sign-up answered with a user and no session sets the check-your-email
\* message, no error and no session, while a sign-in that succeeds sets
\* neither message and opens the session.
C28_AuthSubmit ==
  /\ [](loading <=> authCalls # EmptyBag)
  /\ [][/\ Submit => loading' /\ authError' = NoError /\ authMessage' = NoError
        /\ \A call \in BagToSet(authCalls) :
             /\ \A text \in ProviderMessages :
                  AuthFail(call, text) =>
                    /\ ~loading'
                    /\ authError' \in {"Invalid login credentials", AuthDefaultMessage}
                    /\ authMessage' = NoError
                    /\ session' = session
             /\ SignUpOk(call, TRUE, FALSE) =>
                  /\ ~loading'
                  /\ authMessage' = CheckEmailMessage
                  /\ authError' = NoError
                  /\ ~session'
             /\ SignInOk(call) =>
                  /\ ~loading'
                  /\ authMessage' = NoError
                  /\ authError' = NoError
                  /\ session']_vars

\* a sign-up has been answered with a user and no session
C28_Witness ==
  /\ authMessage = CheckEmailMessage
  /\ authError = NoError
  /\ ~loading
  /\ ~session
  /\ authCalls = EmptyBag
  /\ EmailValid(email)

====
